---------------------------- MODULE Spec2Model ----------------------------
(***************************************************************************)
(* UUID generators of mysys: my_uuid_v4 (src/mysys/my_uuid_v4.c) and the   *)
(* two revisions of my_uuid_v7: the microsecond-tick one with backpressure *)
(* (src/unnamed/part_000) and the millisecond-tick one                     *)
(* (src/mysys/my_uuid_v7.c).  The two v7 files define the same symbols, so *)
(* a build holds one of them: impl says which generator a behaviour is     *)
(* about.                                                                  *)
(*                                                                         *)
(* uint64 quantities that take part in arithmetic (tv, uuid_time, the debt *)
(* counter) are integers; the clock values of the model keep them far      *)
(* below 2^31.  The 64-bit random words, which only get masked and stored, *)
(* are 8-byte sequences, most significant byte first.                      *)
(***************************************************************************)
EXTENDS Integers, Sequences, FiniteSets

VARIABLES
  impl,           \* "v7us" (part_000), "v7ms" (my_uuid_v7.c), "v4" (my_uuid_v4.c)
  inited,         \* my_uuid_v7_inited / my_uuid_v4_inited
  debt,           \* borrowed_microseconds (part_000) / milliseconds (my_uuid_v7.c)
  uuid_time,      \* static uint64 uuid_time
  mutex_live,     \* LOCK_uuid_v7_generator is initialised and not destroyed
  mutex_owner,    \* the thread holding LOCK_uuid_v7_generator, or NoThread
  pc,             \* where each thread is in its call
  tv,             \* each call's local tv
  to,             \* each caller's 16-byte buffer
  rcs,            \* history: return codes of the my_random_bytes calls the call made
  errors,         \* my_printf_error calls made by the thread's current call
  sleeps,         \* history: arguments of the my_sleep calls the call made
  cur,            \* history: what the call's lock section read and decided
  idx,            \* history: position of the call's lock section in issued
  issued,         \* history: one record per completed lock section, in lock order
  calls,          \* history: generate calls started
  mutexInits,     \* history: mysql_mutex_init calls
  mutexDestroys,  \* history: mysql_mutex_destroy calls
  flips,          \* history: init and end calls that changed the inited flag
  idleInit,       \* history: since the last initialisation, an init call returned early
  idleEnd,        \* history: since the last initialisation, an end call found nothing to do
  misuse          \* history: the callers broke the contract of init, generate and end

vars == <<impl, inited, debt, uuid_time, mutex_live, mutex_owner, pc, tv, to,
          rcs, errors, sleeps, cur, idx, issued, calls, mutexInits,
          mutexDestroys, flips, idleInit, idleEnd, misuse>>

---------------------------------------------------------------------------
(* Bounds of the model.  MaxCalls bounds the generate calls started,       *)
(* MaxLifecycle the init and end calls that change the inited flag.  With  *)
(* both at 3 the model has 391,934 states; with both at 4 it has 4,054,346 *)
(* and the invariants C1, C2, C3, C5, C7, C8 and the property C10 hold too. *)

MaxCalls == 3
MaxLifecycle == 3

Threads == {"t1", "t2"}
NoThread == "none"

\* my_hrtime().val readings (microseconds).  The clock may stall and go back.
\* part_000: 999 then 0 crosses a millisecond by borrowing, 66540 leaves a gap
\* above 2^16 after tick 1000, 600000 then 0 is a backward jump larger than
\* MAX_BORROWED_MICROSECONDS.  my_uuid_v7.c divides by 1000: 0 and 999 are the
\* same millisecond, 65540000 leaves a gap above 2^16 milliseconds.
HrtimeUs == {0, 999, 66540, 600000}
HrtimeMs == {0, 999, 2000, 65540000}
ClockValues == IF impl = "v7ms" THEN HrtimeMs ELSE HrtimeUs

Zero8 == [i \in 1..8 |-> 0]
Ones8 == [i \in 1..8 |-> 255]
\* what my_random_bytes may leave in a uint64, and in a uint16 and a uint64
Rand64 == {Zero8, Ones8}
Rand16x64 == {<<0, Ones8>>, <<65535, Zero8>>}
\* my_random_bytes return codes
RandomRc == {"MY_AES_OK", "MY_AES_OPENSSL_ERROR"}

Impls == {"v7us", "v7ms", "v4"}
IsV7 == impl \in {"v7us", "v7ms"}

---------------------------------------------------------------------------
(* Program constants *)

UUID_VERSION_V7 == 28672
UUID_VERSION_V4 == 16384
UUID_VERSION_MASK == 4095
MAX_BORROWED_MICROSECONDS == 500000
SLEEP_MILLISECONDS == 250

UUID_VERSION == IF impl = "v4" THEN UUID_VERSION_V4 ELSE UUID_VERSION_V7

---------------------------------------------------------------------------
(* Pure helpers *)

MY_MIN(a, b) == IF a < b THEN a ELSE b

\* (uint16) x
Uint16(x) == x % 65536

\* x >> (8 * k)
RECURSIVE Shr8(_, _)
Shr8(x, k) == IF k = 0 THEN x ELSE Shr8(x \div 256, k - 1)

\* x & (2^(8n) - 1): the n low bytes of x
RECURSIVE LowBytes(_, _)
LowBytes(x, n) == IF n = 0 THEN 0 ELSE (x % 256) + 256 * LowBytes(x \div 256, n - 1)

\* mi_int6store: the 48 low bits of T, big-endian
mi_int6store(T) == [i \in 1..6 |-> Shr8(T, 6 - i) % 256]

\* mi_int2store: 16 bits, big-endian
mi_int2store(A) == <<(A \div 256) % 256, A % 256>>

\* mi_int8store of a 64-bit word held as its 8 bytes, most significant first
mi_int8store(W) == [i \in 1..8 |-> W[i]]

\* the version field without the version tag
VersionField_NoTag(x) == x % (UUID_VERSION_MASK + 1)

\* (uint16) ((x & UUID_VERSION_MASK) | UUID_VERSION)
VersionField(x) == (x % (UUID_VERSION_MASK + 1)) + UUID_VERSION

\* (rand & UUID_VARIANT_MASK) | UUID_VARIANT on the most significant byte
VariantField(W) == [i \in 1..8 |-> IF i = 1 THEN (W[1] % 64) + 128 ELSE W[i]]

\* the sub-millisecond field scaled by 0.4096 instead of 4.096
SubMsPrecision_TenthFactor(t) == Uint16((4096 * (t % 1000)) \div 10000)

\* (uint16) (MICROSECONDS_TO_12BIT_MAPPING_FACTOR * (tv % 1000)); the double
\* product truncates to floor(4096 r / 1000) for every r in 0..999
SubMsPrecision(t) == Uint16((4096 * (t % 1000)) \div 1000)

\* unix_ts_ms taken as the remainder instead of the quotient
UnixTsMs_Rem(t) == IF impl = "v7us" THEN LowBytes(t % 1000, 6) ELSE LowBytes(t, 6)

\* unix_ts_ms
UnixTsMs(t) == IF impl = "v7us" THEN LowBytes(t \div 1000, 6) ELSE LowBytes(t, 6)

\* the repay step without MY_MIN: the whole gap is taken from the debt
RepayDelta_WholeGap(t, last, d) == Uint16(t - last - 1)

\* the repay step without the -1 of its gap
RepayDelta_NoMinusOne(t, last, d) == MY_MIN(d, Uint16(t - last))

\* delta of the repay step
RepayDelta(t, last, d) == MY_MIN(d, Uint16(t - last - 1))

\* the borrow without its +1
BorrowAmount_NoPlusOne(t, last) == last - t

\* what the stalled/backward branch adds to the debt
BorrowAmount(t, last) == last - t + 1

\* the stalled branch leaving tv at uuid_time
StalledTick_Same(last) == last

\* tv = uuid_time + 1
StalledTick(last) == last + 1

\* the debt lowered by the whole ceiling
BackpressureCut_Whole == MAX_BORROWED_MICROSECONDS

\* what the debt is lowered by after the sleep
BackpressureCut == MAX_BORROWED_MICROSECONDS \div 2

\* the backpressure test (part_000 only)
OverCeiling(d) == impl = "v7us" /\ d > MAX_BORROWED_MICROSECONDS

\* the helper doing what its name says: true when the draw succeeded
is_random_bits_generation_successful_AsNamed(rc) == rc = "MY_AES_OK"

\* is_random_bits_generation_successful: true when the draw FAILED
is_random_bits_generation_successful(rc) == rc # "MY_AES_OK"

Unwritten == [i \in 1..16 |-> -1]
Pack(b05, b67, b8f) == b05 \o b67 \o b8f

\* big-endian value of the first n bytes of a byte sequence
RECURSIVE BEn(_, _)
BEn(s, n) == IF n = 0 THEN 0 ELSE 256 * BEn(s, n - 1) + s[n]

\* big-endian value of a byte sequence
BE(s) == BEn(s, Len(s))

---------------------------------------------------------------------------
(* Initial state: static storage before my_uuid_v*_init *)

NoSection == [clock |-> -1, old |-> -1, d0 |-> -1, branch |-> "none", d1 |-> -1]

Init ==
  /\ impl \in Impls
  /\ inited = FALSE
  /\ debt = 0
  /\ uuid_time = 0
  /\ mutex_live = FALSE
  /\ mutex_owner = NoThread
  /\ pc = [t \in Threads |-> "idle"]
  /\ tv = [t \in Threads |-> 0]
  /\ to = [t \in Threads |-> Unwritten]
  /\ rcs = [t \in Threads |-> <<>>]
  /\ errors = [t \in Threads |-> 0]
  /\ sleeps = [t \in Threads |-> <<>>]
  /\ cur = [t \in Threads |-> NoSection]
  /\ idx = [t \in Threads |-> 0]
  /\ issued = <<>>
  /\ calls = 0
  /\ mutexInits = 0
  /\ mutexDestroys = 0
  /\ flips = 0
  /\ idleInit = FALSE
  /\ idleEnd = FALSE
  /\ misuse = FALSE

AllIdle == \A t \in Threads : pc[t] = "idle"

callLocals == <<pc, tv, to, rcs, errors, sleeps, cur, idx, issued, calls>>

---------------------------------------------------------------------------
(* Lifecycle.  my_uuid_v*_end is called once every generate call has       *)
(* returned (the callers' contract); my_uuid_v*_init may be called at any  *)
(* time.                                                                   *)

\* my_uuid_v*_init without its early return
InitReturnsEarly_Never == FALSE

\* if (my_uuid_v*_inited) return;
InitReturnsEarly == inited

\* if (my_uuid_v*_inited) { ... }
EndActs == inited

\* my_uuid_v7_init also setting uuid_time back to its initial value
V7InitBody_ResetsTick ==
  /\ inited' = TRUE
  /\ debt' = 0
  /\ uuid_time' = 0
  /\ mutex_live' = TRUE
  /\ mutex_owner' = NoThread
  /\ mutexInits' = mutexInits + 1
  /\ flips' = flips + 1
  /\ idleInit' = FALSE
  /\ idleEnd' = FALSE

\* the body of my_uuid_v7_init after the early return
V7InitBody ==
  /\ inited' = TRUE
  /\ debt' = 0
  /\ UNCHANGED uuid_time
  /\ mutex_live' = TRUE
  /\ mutex_owner' = NoThread
  /\ mutexInits' = mutexInits + 1
  /\ flips' = flips + 1
  /\ idleInit' = FALSE
  /\ idleEnd' = FALSE

my_uuid_v7_init ==
  /\ IsV7
  /\ IF InitReturnsEarly
       THEN /\ idleInit' = TRUE
            /\ UNCHANGED <<inited, debt, uuid_time, mutex_live, mutex_owner,
                           mutexInits, flips, idleEnd>>
       ELSE /\ flips < MaxLifecycle
            /\ V7InitBody
  /\ UNCHANGED <<impl, mutexDestroys, misuse, callLocals>>

\* the body of my_uuid_v7_end inside the if
V7EndBody ==
  /\ inited' = FALSE
  /\ mutex_live' = FALSE
  /\ mutexDestroys' = mutexDestroys + 1
  /\ flips' = flips + 1
  /\ UNCHANGED idleEnd

my_uuid_v7_end ==
  /\ IsV7
  /\ AllIdle
  /\ IF EndActs
       THEN /\ flips < MaxLifecycle
            /\ V7EndBody
       ELSE /\ idleEnd' = TRUE
            /\ UNCHANGED <<inited, mutex_live, mutexDestroys, flips>>
  /\ UNCHANGED <<impl, debt, uuid_time, mutex_owner, mutexInits, idleInit,
                 misuse, callLocals>>

my_uuid_v4_init ==
  /\ impl = "v4"
  /\ IF InitReturnsEarly
       THEN /\ idleInit' = TRUE
            /\ UNCHANGED <<inited, flips, idleEnd>>
       ELSE /\ flips < MaxLifecycle
            /\ inited' = TRUE
            /\ flips' = flips + 1
            /\ idleInit' = FALSE
            /\ idleEnd' = FALSE
  /\ UNCHANGED <<impl, debt, uuid_time, mutex_live, mutex_owner, mutexInits,
                 mutexDestroys, misuse, callLocals>>

my_uuid_v4_end ==
  /\ impl = "v4"
  /\ AllIdle
  /\ IF EndActs
       THEN /\ flips < MaxLifecycle
            /\ inited' = FALSE
            /\ flips' = flips + 1
            /\ UNCHANGED idleEnd
       ELSE /\ idleEnd' = TRUE
            /\ UNCHANGED <<inited, flips>>
  /\ UNCHANGED <<impl, debt, uuid_time, mutex_live, mutex_owner, mutexInits,
                 mutexDestroys, idleInit, misuse, callLocals>>

shared == <<impl, inited, debt, uuid_time, mutex_live, mutex_owner>>
lifecycleHist == <<mutexInits, mutexDestroys, flips, idleInit, idleEnd, misuse>>

---------------------------------------------------------------------------
(* my_uuid_v7 *)

\* the generate call without its assertion
AssertHolds_Skipped == TRUE

\* DBUG_ASSERT(my_uuid_v7_inited) / DBUG_ASSERT(my_uuid_v4_inited)
AssertHolds == inited

\* entry of my_uuid_v7 / my_uuid_v4: DBUG_ASSERT(my_uuid_v*_inited) holds
Call(t) ==
  /\ pc[t] = "idle"
  /\ AssertHolds
  /\ calls < MaxCalls
  /\ calls' = calls + 1
  /\ pc' = [pc EXCEPT ![t] = IF IsV7 THEN "clock" ELSE "random"]
  /\ to' = [to EXCEPT ![t] = Unwritten]
  /\ rcs' = [rcs EXCEPT ![t] = <<>>]
  /\ errors' = [errors EXCEPT ![t] = 0]
  /\ sleeps' = [sleeps EXCEPT ![t] = <<>>]
  /\ cur' = [cur EXCEPT ![t] = NoSection]
  /\ idx' = [idx EXCEPT ![t] = 0]
  /\ UNCHANGED <<shared, lifecycleHist, tv, issued>>

\* tv= my_hrtime().val;   (my_uuid_v7.c: my_hrtime().val / 1000)
ClockTick(c) == IF impl = "v7ms" THEN c \div 1000 ELSE c

ReadClock(t) ==
  /\ pc[t] = "clock"
  /\ \E c \in ClockValues :
       /\ tv' = [tv EXCEPT ![t] = ClockTick(c)]
       /\ cur' = [cur EXCEPT ![t].clock = ClockTick(c)]
  /\ pc' = [pc EXCEPT ![t] = "lock"]
  /\ UNCHANGED <<shared, lifecycleHist, to, rcs, errors, sleeps, idx, issued,
                 calls>>

\* mysql_mutex_lock returning although another thread holds the mutex
MutexLock_NoWait(t) ==
  /\ pc[t] = "lock"
  /\ mutex_live
  /\ mutex_owner' = t
  /\ pc' = [pc EXCEPT ![t] = "reconcile"]
  /\ UNCHANGED <<impl, inited, debt, uuid_time, mutex_live, lifecycleHist, tv,
                 to, rcs, errors, sleeps, cur, idx, issued, calls>>

\* mysql_mutex_lock(&LOCK_uuid_v7_generator)
MutexLock(t) ==
  /\ pc[t] = "lock"
  /\ mutex_live
  /\ mutex_owner = NoThread
  /\ mutex_owner' = t
  /\ pc' = [pc EXCEPT ![t] = "reconcile"]
  /\ UNCHANGED <<impl, inited, debt, uuid_time, mutex_live, lifecycleHist, tv,
                 to, rcs, errors, sleeps, cur, idx, issued, calls>>

\* the if / else if of the lock section, up to the call of my_sleep
Reconcile(t) ==
  /\ pc[t] = "reconcile"
  /\ IF tv[t] > uuid_time
       THEN LET delta == IF debt # 0 THEN RepayDelta(tv[t], uuid_time, debt) ELSE 0
            IN /\ tv' = [tv EXCEPT ![t] = tv[t] - delta]
               /\ debt' = debt - delta
               /\ cur' = [cur EXCEPT ![t].old = uuid_time, ![t].d0 = debt,
                                     ![t].branch = "ahead", ![t].d1 = debt - delta]
               /\ pc' = [pc EXCEPT ![t] = "store"]
               /\ UNCHANGED sleeps
       ELSE LET d == debt + BorrowAmount(tv[t], uuid_time)
            IN /\ tv' = [tv EXCEPT ![t] = StalledTick(uuid_time)]
               /\ debt' = d
               /\ cur' = [cur EXCEPT ![t].old = uuid_time, ![t].d0 = debt,
                                     ![t].branch = "stalled", ![t].d1 = d]
               /\ IF OverCeiling(d)
                    THEN /\ pc' = [pc EXCEPT ![t] = "sleep"]
                         /\ sleeps' = [sleeps EXCEPT ![t] =
                                          Append(sleeps[t], SLEEP_MILLISECONDS)]
                    ELSE /\ pc' = [pc EXCEPT ![t] = "store"]
                         /\ UNCHANGED sleeps
  /\ UNCHANGED <<impl, inited, uuid_time, mutex_live, mutex_owner, lifecycleHist,
                 to, rcs, errors, idx, issued, calls>>

\* my_sleep(SLEEP_MILLISECONDS) returns; borrowed_microseconds-= MAX / 2
SleepReturn(t) ==
  /\ pc[t] = "sleep"
  /\ debt' = debt - BackpressureCut
  /\ pc' = [pc EXCEPT ![t] = "store"]
  /\ UNCHANGED <<impl, inited, uuid_time, mutex_live, mutex_owner, lifecycleHist,
                 tv, to, rcs, errors, sleeps, cur, idx, issued, calls>>

\* the lock section ending without mysql_mutex_unlock
StoreAndUnlock_KeepsLock(t) ==
  /\ pc[t] = "store"
  /\ uuid_time' = tv[t]
  /\ issued' = Append(issued, [clock |-> cur[t].clock, old |-> cur[t].old,
                               tick |-> tv[t], branch |-> cur[t].branch,
                               d0 |-> cur[t].d0, d1 |-> cur[t].d1, d2 |-> debt,
                               sleeps |-> sleeps[t], epoch |-> mutexInits,
                               ts |-> -1, sub |-> -1])
  /\ idx' = [idx EXCEPT ![t] = Len(issued) + 1]
  /\ pc' = [pc EXCEPT ![t] = "random"]
  /\ UNCHANGED <<impl, inited, debt, mutex_live, mutex_owner, lifecycleHist, tv,
                 to, rcs, errors, sleeps, cur, calls>>

\* uuid_time= tv; mysql_mutex_unlock(&LOCK_uuid_v7_generator)
StoreAndUnlock(t) ==
  /\ pc[t] = "store"
  /\ uuid_time' = tv[t]
  /\ mutex_owner' = NoThread
  /\ issued' = Append(issued, [clock |-> cur[t].clock, old |-> cur[t].old,
                               tick |-> tv[t], branch |-> cur[t].branch,
                               d0 |-> cur[t].d0, d1 |-> cur[t].d1, d2 |-> debt,
                               sleeps |-> sleeps[t], epoch |-> mutexInits,
                               ts |-> -1, sub |-> -1])
  /\ idx' = [idx EXCEPT ![t] = Len(issued) + 1]
  /\ pc' = [pc EXCEPT ![t] = "random"]
  /\ UNCHANGED <<impl, inited, debt, mutex_live, lifecycleHist, tv, to, rcs,
                 errors, sleeps, cur, calls>>

\* the history's record of the call's output: the 48-bit field of bytes 0-5
\* and the 12 low bits of bytes 6-7
Emitted(t, buf) ==
  [issued EXCEPT ![idx[t]].ts = BE(SubSeq(buf, 1, 6)),
                 ![idx[t]].sub = BE(SubSeq(buf, 7, 8)) % 4096]

\* part_000: my_printf_error calls for the draw's return code
V7usErrors(rc) == IF rc # "MY_AES_OK" THEN 1 ELSE 0

\* part_000, from my_random_bytes to the three stores.  A failed draw leaves
\* rand indeterminate: r is any word either way.
RandomAndPackUs(t) ==
  /\ impl = "v7us"
  /\ pc[t] = "random"
  /\ \E rc \in RandomRc, r \in Rand64 :
       \E buf \in {Pack(mi_int6store(UnixTsMs(tv[t])),
                        mi_int2store(VersionField(SubMsPrecision(tv[t]))),
                        mi_int8store(VariantField(r)))} :
          /\ rcs' = [rcs EXCEPT ![t] = <<rc>>]
          /\ errors' = [errors EXCEPT ![t] = V7usErrors(rc)]
          /\ to' = [to EXCEPT ![t] = buf]
          /\ issued' = Emitted(t, buf)
  /\ pc' = [pc EXCEPT ![t] = "return"]
  /\ UNCHANGED <<shared, lifecycleHist, tv, sleeps, cur, idx, calls>>

\* my_uuid_v7.c: the two return codes are discarded
V7msErrors(rcA, rcB) == 0

\* my_uuid_v7.c, from the two my_random_bytes calls to the three stores
RandomAndPackMs(t) ==
  /\ impl = "v7ms"
  /\ pc[t] = "random"
  /\ \E rcA \in RandomRc, rcB \in RandomRc, ab \in Rand16x64 :
       \E buf \in {Pack(mi_int6store(UnixTsMs(tv[t])),
                        mi_int2store(VersionField(ab[1])),
                        mi_int8store(VariantField(ab[2])))} :
          /\ rcs' = [rcs EXCEPT ![t] = <<rcA, rcB>>]
          /\ errors' = [errors EXCEPT ![t] = V7msErrors(rcA, rcB)]
          /\ to' = [to EXCEPT ![t] = buf]
          /\ issued' = Emitted(t, buf)
  /\ pc' = [pc EXCEPT ![t] = "return"]
  /\ UNCHANGED <<shared, lifecycleHist, tv, sleeps, cur, idx, calls>>

---------------------------------------------------------------------------
(* my_uuid_v4 *)

\* my_random_bytes calls made by the || chain: it stops at the first failure
V4Draws(rc1, rc2, rc3) ==
  IF is_random_bits_generation_successful(rc1) THEN <<rc1>>
  ELSE IF is_random_bits_generation_successful(rc2) THEN <<rc1, rc2>>
  ELSE <<rc1, rc2, rc3>>

\* my_printf_error calls: one when the || chain is true
V4Errors(rc1, rc2, rc3) ==
  IF \/ is_random_bits_generation_successful(rc1)
     \/ is_random_bits_generation_successful(rc2)
     \/ is_random_bits_generation_successful(rc3)
    THEN 1 ELSE 0

\* the 6 low bytes of a 64-bit word, as mi_int6store writes them
Low6(W) == [i \in 1..6 |-> W[i + 2]]

\* my_uuid_v4.  A draw that failed or was not made leaves its variable
\* indeterminate: a, b, c are any values either way.
RandomAndPackV4(t) ==
  /\ impl = "v4"
  /\ pc[t] = "random"
  /\ \E rc1 \in RandomRc, rc2 \in RandomRc, rc3 \in RandomRc,
        a \in Rand64, bc \in Rand16x64 :
       /\ rcs' = [rcs EXCEPT ![t] = V4Draws(rc1, rc2, rc3)]
       /\ errors' = [errors EXCEPT ![t] = V4Errors(rc1, rc2, rc3)]
       /\ to' = [to EXCEPT ![t] = Pack(Low6(a), mi_int2store(VersionField(bc[1])),
                                       mi_int8store(VariantField(bc[2])))]
  /\ pc' = [pc EXCEPT ![t] = "return"]
  /\ UNCHANGED <<shared, lifecycleHist, tv, sleeps, cur, idx, issued, calls>>

\* the call returns: its locals are gone, the caller keeps the buffer
Return(t) ==
  /\ pc[t] = "return"
  /\ pc' = [pc EXCEPT ![t] = "idle"]
  /\ tv' = [tv EXCEPT ![t] = 0]
  /\ rcs' = [rcs EXCEPT ![t] = <<>>]
  /\ errors' = [errors EXCEPT ![t] = 0]
  /\ sleeps' = [sleeps EXCEPT ![t] = <<>>]
  /\ cur' = [cur EXCEPT ![t] = NoSection]
  /\ idx' = [idx EXCEPT ![t] = 0]
  /\ UNCHANGED <<shared, lifecycleHist, to, issued, calls>>

---------------------------------------------------------------------------

Next ==
  \/ my_uuid_v7_init
  \/ my_uuid_v7_end
  \/ my_uuid_v4_init
  \/ my_uuid_v4_end
  \/ \E t \in Threads : Call(t)
  \/ \E t \in Threads : ReadClock(t)
  \/ \E t \in Threads : MutexLock(t)
  \/ \E t \in Threads : Reconcile(t)
  \/ \E t \in Threads : SleepReturn(t)
  \/ \E t \in Threads : StoreAndUnlock(t)
  \/ \E t \in Threads : RandomAndPackUs(t)
  \/ \E t \in Threads : RandomAndPackMs(t)
  \/ \E t \in Threads : RandomAndPackV4(t)
  \/ \E t \in Threads : Return(t)

Spec == Init /\ [][Next]_vars

---------------------------------------------------------------------------
(* Claims *)

Sections == 1..Len(issued)
Written(i) == issued[i].ts >= 0

\* C1: in both my_uuid_v7 files every lock section writes to uuid_time a value
\* strictly greater than the one it found, whatever the clock read and the
\* debt, so under any interleaving no two calls of one init..end lifetime get
\* the same reconciled tick.
C1_StrictTick ==
  IsV7 =>
    /\ \A i \in Sections : issued[i].tick > issued[i].old
    /\ \A t \in Threads : pc[t] = "store" => tv[t] > uuid_time
    /\ \A i, j \in Sections :
         (i < j /\ issued[i].epoch = issued[j].epoch)
           => issued[i].tick # issued[j].tick

\* a lock section that found the clock stalled or behind has completed, and a
\* second caller waits for the lock while the holder, which found the clock
\* ahead with debt to repay, is about to write uuid_time
C1_Witness ==
  /\ IsV7
  /\ \E i \in Sections : issued[i].branch = "stalled"
  /\ \E t, u \in Threads :
       /\ pc[t] = "store" /\ cur[t].branch = "ahead" /\ cur[t].d0 > 0
       /\ tv[t] < cur[t].clock
       /\ pc[u] = "lock"

\* C2 as stated: in part_000 the 48-bit field of bytes 0-5 is strictly smaller
\* for the call whose lock section came first.
C2_StrictField ==
  impl = "v7us" =>
    \A i, j \in Sections :
      (i < j /\ Written(i) /\ Written(j)) => issued[i].ts < issued[j].ts

\* C2 amended: in part_000 the 48-bit field of bytes 0-5 of the call whose
\* lock section came first is never greater than the later call's; it is
\* strictly smaller exactly when the two reconciled ticks lie in different
\* milliseconds.
C2_FieldNonDecreasing ==
  impl = "v7us" =>
    \A i, j \in Sections :
      (i < j /\ Written(i) /\ Written(j)) =>
        /\ issued[i].ts <= issued[j].ts
        /\ (issued[i].ts < issued[j].ts
              <=> issued[i].tick \div 1000 < issued[j].tick \div 1000)

\* three part_000 calls, the clock going backward: two outputs share the
\* millisecond field and a later one has a greater field
C2_Witness ==
  /\ impl = "v7us"
  /\ Len(issued) = 3
  /\ \A i \in Sections : Written(i)
  /\ issued[1].ts = issued[2].ts
  /\ issued[2].ts < issued[3].ts
  /\ issued[3].clock < issued[2].clock

\* C3: in my_uuid_v7.c the 48-bit field of bytes 0-5 is strictly increasing in
\* the order of the lock sections, hence never repeated; this holds whatever
\* the clock does, in particular for sequential calls on a clock that never
\* moves backward and that read the same millisecond.
C3_MsFieldStrict ==
  impl = "v7ms" =>
    \A i, j \in Sections :
      (i < j /\ Written(i) /\ Written(j)) => issued[i].ts < issued[j].ts

\* three my_uuid_v7.c calls on a clock that did not move backward, two of them
\* reading the same millisecond
C3_Witness ==
  /\ impl = "v7ms"
  /\ Len(issued) = 3
  /\ \A i \in Sections : Written(i)
  /\ issued[1].clock = issued[2].clock
  /\ issued[2].clock <= issued[3].clock
  /\ issued[2].branch = "stalled"

\* C4 as stated: in part_000 no thread sleeps inside my_uuid_v7 while it holds
\* LOCK_uuid_v7_generator.
C4_NoSleepUnderLock ==
  impl = "v7us" => \A t \in Threads : pc[t] = "sleep" => mutex_owner # t

\* C5: every identifier written by my_uuid_v4 and by both my_uuid_v7 files has
\* the generator's version tag (4 or 7) in the top 4 bits of byte 6 and binary
\* 10 in the top 2 bits of byte 8, whatever was drawn and also when a draw
\* failed.
C5_VersionVariantBits ==
  \A t \in Threads :
    to[t] # Unwritten =>
      /\ to[t][7] \div 16 = (IF impl = "v4" THEN 4 ELSE 7)
      /\ to[t][9] \div 64 = 2

Failing(t) == {k \in 1..Len(rcs[t]) : rcs[t][k] # "MY_AES_OK"}

\* a call has written its buffer after one of its draws failed
C5_Witness ==
  \E t \in Threads : pc[t] = "return" /\ Failing(t) # {} /\ to[t] # Unwritten

\* C6 as stated: a call that reads the same clock value as the call before it,
\* finds the clock stalled and does not sleep raises the debt by exactly one.
C6_UnitDebtPerStall ==
  IsV7 =>
    \A j \in Sections :
      ( /\ j > 1
        /\ issued[j].clock = issued[j - 1].clock
        /\ issued[j].branch = "stalled"
        /\ issued[j].sleeps = <<>> )
      => issued[j].d2 = issued[j].d0 + 1

\* C7: in part_000 a call sleeps exactly when it took the stalled/backward
\* branch and its debt after borrowing exceeds MAX_BORROWED_MICROSECONDS; it
\* then sleeps once and lowers the debt by MAX_BORROWED_MICROSECONDS / 2; any
\* other call never sleeps and leaves the debt of its branch.
C7_Backpressure ==
  impl = "v7us" =>
    /\ \A t \in Threads :
         /\ sleeps[t] \in {<<>>, <<SLEEP_MILLISECONDS>>}
         /\ sleeps[t] # <<>> =>
              cur[t].branch = "stalled" /\ cur[t].d1 > MAX_BORROWED_MICROSECONDS
         /\ (pc[t] \in {"store", "random", "return"} /\ sleeps[t] = <<>>) =>
              ~(cur[t].branch = "stalled" /\ cur[t].d1 > MAX_BORROWED_MICROSECONDS)
    /\ \A i \in Sections :
         /\ issued[i].sleeps \in {<<>>, <<SLEEP_MILLISECONDS>>}
         /\ issued[i].sleeps # <<>> <=>
              (issued[i].branch = "stalled"
                 /\ issued[i].d1 > MAX_BORROWED_MICROSECONDS)
         /\ issued[i].sleeps # <<>> =>
              issued[i].d2 = issued[i].d1 - (MAX_BORROWED_MICROSECONDS \div 2)
         /\ issued[i].sleeps = <<>> => issued[i].d2 = issued[i].d1

\* one completed part_000 call slept, another took the stalled branch without
\* sleeping, a third found the clock ahead
C7_Witness ==
  /\ impl = "v7us"
  /\ \E i, j, k \in Sections :
       /\ issued[i].sleeps = <<SLEEP_MILLISECONDS>>
       /\ issued[j].branch = "stalled" /\ issued[j].sleeps = <<>>
       /\ issued[k].branch = "ahead"

\* C8: a my_uuid_v4 call reports the fatal error once per failing draw it
\* made, draws nothing after the first failure, reports nothing when its three
\* draws succeed, and returns with all 16 bytes of the buffer written.
C8_V4ErrorPerFailingDraw ==
  impl = "v4" =>
    \A t \in Threads :
      pc[t] = "return" =>
        /\ errors[t] = Cardinality(Failing(t))
        /\ Failing(t) \subseteq {Len(rcs[t])}
        /\ Failing(t) = {} => Len(rcs[t]) = 3
        /\ \A k \in 1..16 : to[t][k] \in 0..255

\* a my_uuid_v4 call whose second draw failed is about to return
C8_Witness ==
  /\ impl = "v4"
  /\ \E t \in Threads :
       /\ pc[t] = "return"
       /\ rcs[t] = <<"MY_AES_OK", "MY_AES_OPENSSL_ERROR">>
       /\ errors[t] = 1

\* C9 as stated: in both my_uuid_v7 files a call reports the fatal error once
\* for a failing draw, still fills the buffer, and keeps the tick it committed.
C9_V7ErrorSignaled ==
  IsV7 =>
    \A t \in Threads :
      pc[t] = "return" =>
        /\ Failing(t) # {} => errors[t] = 1
        /\ Failing(t) = {} => errors[t] = 0
        /\ \A k \in 1..16 : to[t][k] \in 0..255
        /\ uuid_time >= issued[idx[t]].tick

IdleInitStep ==
  ((my_uuid_v7_init \/ my_uuid_v4_init) /\ inited)
    => UNCHANGED <<inited, debt, uuid_time, mutex_live, mutex_owner, mutexInits,
                   mutexDestroys>>

IdleEndStep ==
  ((my_uuid_v7_end \/ my_uuid_v4_end) /\ ~inited)
    => UNCHANGED <<inited, debt, uuid_time, mutex_live, mutex_owner, mutexInits,
                   mutexDestroys>>

MutexAlternates ==
  /\ mutexInits \in {mutexDestroys, mutexDestroys + 1}
  /\ mutex_live <=> mutexInits = mutexDestroys + 1
  /\ IsV7 => (inited <=> mutex_live)

\* C10: an init call made while the generator is initialised, and an end call
\* made while it is not, change neither the inited flag, the debt, uuid_time
\* nor the mutex, so mysql_mutex_init and mysql_mutex_destroy alternate.
C10_LifecycleIdempotent ==
  /\ [][IdleInitStep]_vars
  /\ [][IdleEndStep]_vars
  /\ []MutexAlternates

\* one lifetime in which the debt grew, a second init returned early and a
\* second end found nothing to do
C10_Witness ==
  /\ IsV7
  /\ idleInit /\ idleEnd
  /\ mutexInits = 1 /\ mutexDestroys = 1
  /\ debt > 0

---------------------------------------------------------------------------
(* Termination.  The threads are scheduled by the operating system: a     *)
(* thread that can take its next step eventually takes it (weak fairness), *)
(* my_sleep returns, and a thread waiting in mysql_mutex_lock gets the     *)
(* mutex if it becomes free again and again (strong fairness: fair lock    *)
(* acquisition).  Starting a call is the caller's choice and is not fair.  *)

\* the steps of a my_uuid_v7 call in progress other than taking the mutex
Progress(t) ==
  \/ ReadClock(t)
  \/ Reconcile(t)
  \/ SleepReturn(t)
  \/ StoreAndUnlock(t)
  \/ RandomAndPackUs(t)
  \/ RandomAndPackMs(t)
  \/ Return(t)

\* static storage after my_uuid_v7_init has returned
InitedV7 ==
  /\ IsV7
  /\ inited = TRUE
  /\ debt = 0
  /\ uuid_time = 0
  /\ mutex_live = TRUE
  /\ mutex_owner = NoThread
  /\ pc = [t \in Threads |-> "idle"]
  /\ tv = [t \in Threads |-> 0]
  /\ to = [t \in Threads |-> Unwritten]
  /\ rcs = [t \in Threads |-> <<>>]
  /\ errors = [t \in Threads |-> 0]
  /\ sleeps = [t \in Threads |-> <<>>]
  /\ cur = [t \in Threads |-> NoSection]
  /\ idx = [t \in Threads |-> 0]
  /\ issued = <<>>
  /\ calls = 0
  /\ mutexInits = 1
  /\ mutexDestroys = 0
  /\ flips = 1
  /\ idleInit = FALSE
  /\ idleEnd = FALSE
  /\ misuse = FALSE

\* my_uuid_v7 calls between my_uuid_v7_init and my_uuid_v7_end
GenerateV7 ==
  \/ \E t \in Threads : Call(t)
  \/ \E t \in Threads : ReadClock(t)
  \/ \E t \in Threads : MutexLock(t)
  \/ \E t \in Threads : Reconcile(t)
  \/ \E t \in Threads : SleepReturn(t)
  \/ \E t \in Threads : StoreAndUnlock(t)
  \/ \E t \in Threads : RandomAndPackUs(t)
  \/ \E t \in Threads : RandomAndPackMs(t)
  \/ \E t \in Threads : Return(t)

FairSpec ==
  /\ InitedV7
  /\ [][GenerateV7]_vars
  /\ \A t \in Threads : WF_vars(Progress(t)) /\ SF_vars(MutexLock(t))

InLockSection(t) == pc[t] \in {"reconcile", "sleep", "store"}

\* a thread waiting for the mutex waits for a live mutex that is free or held
\* by a thread inside its lock section, and only such a thread holds it
NoDeadlockState ==
  /\ \A t \in Threads :
       pc[t] = "lock" =>
         /\ mutex_live
         /\ mutex_owner = NoThread \/ InLockSection(mutex_owner)
  /\ \A t \in Threads : mutex_owner = t <=> InLockSection(t)

\* C11: between init and end, under fair scheduling and fair lock
\* acquisition, every my_uuid_v7 call that starts returns and every thread
\* that takes the mutex releases it, also when it waits behind a thread in the
\* backpressure sleep; no reachable state is a deadlock.
C11_NoIndefiniteBlocking ==
  /\ \A t \in Threads : (pc[t] # "idle") ~> (pc[t] = "idle")
  /\ \A t \in Threads : (mutex_owner = t) ~> (mutex_owner = NoThread)
  /\ []NoDeadlockState

\* a caller waits for the mutex behind a thread that sleeps holding it
C11_Witness ==
  /\ impl = "v7us"
  /\ \E t, u \in Threads :
       /\ pc[t] = "sleep" /\ mutex_owner = t
       /\ pc[u] = "lock"

\* C12 as stated: in both my_uuid_v7 files a lock section that finds the clock
\* ahead of uuid_time with debt to repay lowers tv and the debt by exactly
\* min(debt, tv - uuid_time - 1), also when that gap is 65536 or more.
C12_RepayIsMin ==
  IsV7 =>
    \A i \in Sections :
      (issued[i].branch = "ahead" /\ issued[i].d0 > 0) =>
        LET repay == MY_MIN(issued[i].d0, issued[i].clock - issued[i].old - 1)
        IN /\ issued[i].d0 - issued[i].d1 = repay
           /\ issued[i].clock - issued[i].tick = repay

\* C13: in both my_uuid_v7 files a lock section takes the borrow step exactly
\* when its clock reading is at or below uuid_time; it then raises the debt by
\* exactly uuid_time - tv + 1 and its reconciled tick is exactly uuid_time + 1,
\* which is the uuid_time the next lock section finds.
C13_BorrowStep ==
  IsV7 =>
    \A i \in Sections :
      /\ issued[i].clock <= issued[i].old <=> issued[i].branch = "stalled"
      /\ issued[i].branch = "stalled" =>
           /\ issued[i].d1 = issued[i].d0 + (issued[i].old - issued[i].clock + 1)
           /\ issued[i].tick = issued[i].old + 1
           /\ i < Len(issued) => issued[i + 1].old = issued[i].tick
           /\ i = Len(issued) => uuid_time = issued[i].tick

\* one lock section found the clock stalled at uuid_time, a later one found
\* it moved back by more than a tick
C13_Witness ==
  /\ IsV7
  /\ \E i, j \in Sections :
       /\ i < j
       /\ issued[i].branch = "stalled" /\ issued[i].clock = issued[i].old
       /\ issued[j].branch = "stalled" /\ issued[j].clock < issued[j].old - 1
       /\ issued[j].d0 > 0

\* a my_uuid_v7 call leaves the if / else-if of the lock section
Reconciles(t) == pc[t] = "reconcile" /\ pc'[t] # "reconcile"

\* a my_uuid_v7 call comes back from my_sleep
WakesUp(t) == pc[t] = "sleep" /\ pc'[t] # "sleep"

\* the debt never underflows; it is cut after the sleep only from above the
\* ceiling; it grows only in a call that found tv <= uuid_time
DebtGuarded ==
  /\ debt' >= 0
  /\ (\E t \in Threads : WakesUp(t)) => debt > MAX_BORROWED_MICROSECONDS
  /\ debt' > debt => \E t \in Threads : Reconciles(t) /\ tv[t] <= uuid_time

DebtLoweredByCall ==
  \E t \in Threads : (Reconciles(t) /\ tv[t] > uuid_time) \/ WakesUp(t)

\* C14 as stated: in both my_uuid_v7 files the debt never underflows, grows
\* only in a call that found tv <= uuid_time, and shrinks only in a call that
\* found tv > uuid_time or that performed the backpressure sleep.
C14_DebtMovesOnlyInCalls ==
  [][DebtGuarded /\ (debt' < debt => DebtLoweredByCall)]_vars

\* C14 amended: in both my_uuid_v7 files the debt never underflows, grows
\* only in a call that found tv <= uuid_time, and shrinks only in a call that
\* found tv > uuid_time or performed the backpressure sleep, or when
\* my_uuid_v7_init initialises the generator again and resets it to 0.
C14_DebtMoves ==
  /\ [](debt >= 0)
  /\ [][DebtGuarded
         /\ (debt' < debt =>
               DebtLoweredByCall \/ (my_uuid_v7_init /\ ~inited /\ debt' = 0))]_vars

\* a call repaid part of the debt, my_uuid_v7_end ran with debt left, and
\* my_uuid_v7_init has reset it
C14_Witness ==
  /\ IsV7
  /\ inited /\ mutexInits = 2 /\ debt = 0
  /\ Len(issued) > 0
  /\ issued[Len(issued)].d2 > 0
  /\ \E i \in Sections : issued[i].branch = "ahead" /\ issued[i].d1 < issued[i].d0

---------------------------------------------------------------------------
(* Callers that do not keep the contract: init, generate and end are      *)
(* called from any thread at any time.  my_uuid_v7_init and my_uuid_v7_end *)
(* are then not atomic: a thread can be between two of their statements.   *)
(* misuse records that a lifecycle call overlapped another call, that      *)
(* generate was called outside init..end, or that a mutex was used while   *)
(* not initialised.  A behaviour is followed up to the step that sets it:  *)
(* from there on the calls race on my_uuid_v7_inited or use a dead mutex,  *)
(* or the process is aborted.                                              *)

OthersIdle(t) == \A u \in Threads \ {t} : pc[u] = "idle"
InLifecycle(t) == pc[t] \in {"init_reset", "init_mutex", "end_destroy"}

\* my_uuid_v7_init: if (my_uuid_v7_inited) return; my_uuid_v7_inited= 1;
InitEnter(t) ==
  /\ IsV7
  /\ pc[t] = "idle"
  /\ IF InitReturnsEarly
       THEN /\ idleInit' = TRUE
            /\ UNCHANGED <<inited, flips, pc, misuse>>
       ELSE /\ flips < MaxLifecycle
            /\ inited' = TRUE
            /\ flips' = flips + 1
            /\ pc' = [pc EXCEPT ![t] = "init_reset"]
            /\ misuse' = (misuse \/ ~OthersIdle(t))
            /\ UNCHANGED idleInit
  /\ UNCHANGED <<impl, debt, uuid_time, mutex_live, mutex_owner, mutexInits,
                 mutexDestroys, idleEnd, tv, to, rcs, errors, sleeps, cur, idx,
                 issued, calls>>

\* my_uuid_v7_init: borrowed_microseconds= 0;
InitReset(t) ==
  /\ pc[t] = "init_reset"
  /\ debt' = 0
  /\ pc' = [pc EXCEPT ![t] = "init_mutex"]
  /\ misuse' = (misuse \/ ~OthersIdle(t))
  /\ UNCHANGED <<impl, inited, uuid_time, mutex_live, mutex_owner, mutexInits,
                 mutexDestroys, flips, idleInit, idleEnd, tv, to, rcs, errors,
                 sleeps, cur, idx, issued, calls>>

\* my_uuid_v7_init: mysql_mutex_init(...)
InitMutex(t) ==
  /\ pc[t] = "init_mutex"
  /\ mutex_live' = TRUE
  /\ mutex_owner' = NoThread
  /\ mutexInits' = mutexInits + 1
  /\ idleInit' = FALSE
  /\ idleEnd' = FALSE
  /\ pc' = [pc EXCEPT ![t] = "idle"]
  /\ misuse' = (misuse \/ ~OthersIdle(t))
  /\ UNCHANGED <<impl, inited, debt, uuid_time, mutexDestroys, flips, tv, to,
                 rcs, errors, sleeps, cur, idx, issued, calls>>

\* my_uuid_v7_end: if (my_uuid_v7_inited) { my_uuid_v7_inited= 0;
EndEnter(t) ==
  /\ IsV7
  /\ pc[t] = "idle"
  /\ IF EndActs
       THEN /\ flips < MaxLifecycle
            /\ inited' = FALSE
            /\ flips' = flips + 1
            /\ pc' = [pc EXCEPT ![t] = "end_destroy"]
            /\ misuse' = (misuse \/ ~OthersIdle(t))
            /\ UNCHANGED idleEnd
       ELSE /\ idleEnd' = TRUE
            /\ UNCHANGED <<inited, flips, pc, misuse>>
  /\ UNCHANGED <<impl, debt, uuid_time, mutex_live, mutex_owner, mutexInits,
                 mutexDestroys, idleInit, tv, to, rcs, errors, sleeps, cur, idx,
                 issued, calls>>

\* my_uuid_v7_end: mysql_mutex_destroy(&LOCK_uuid_v7_generator); }
EndDestroy(t) ==
  /\ pc[t] = "end_destroy"
  /\ mutex_live' = FALSE
  /\ mutexDestroys' = mutexDestroys + 1
  /\ pc' = [pc EXCEPT ![t] = "idle"]
  /\ misuse' = (misuse \/ ~OthersIdle(t))
  /\ UNCHANGED <<impl, inited, debt, uuid_time, mutex_owner, mutexInits, flips,
                 idleInit, idleEnd, tv, to, rcs, errors, sleeps, cur, idx,
                 issued, calls>>

\* my_uuid_v4_end called at any time
EndV4 ==
  /\ impl = "v4"
  /\ IF EndActs
       THEN /\ flips < MaxLifecycle
            /\ inited' = FALSE
            /\ flips' = flips + 1
            /\ misuse' = (misuse \/ ~AllIdle)
            /\ UNCHANGED idleEnd
       ELSE /\ idleEnd' = TRUE
            /\ UNCHANGED <<inited, flips, misuse>>
  /\ UNCHANGED <<impl, debt, uuid_time, mutex_live, mutex_owner, mutexInits,
                 mutexDestroys, idleInit, callLocals>>

\* entry of my_uuid_v7 / my_uuid_v4 outside init..end: the assertion fails
\* and the process is aborted
AssertFails(t) ==
  /\ pc[t] = "idle"
  /\ ~AssertHolds
  /\ calls < MaxCalls
  /\ calls' = calls + 1
  /\ pc' = [pc EXCEPT ![t] = "aborted"]
  /\ misuse' = TRUE
  /\ UNCHANGED <<shared, mutexInits, mutexDestroys, flips, idleInit, idleEnd,
                 tv, to, rcs, errors, sleeps, cur, idx, issued>>

\* mysql_mutex_lock on a mutex that is not initialised or was destroyed:
\* undefined.  It may never return (no step), take the mutex if no thread
\* holds it, or return at once without it.
MutexLockUndefined(t) ==
  /\ pc[t] = "lock"
  /\ ~mutex_live
  /\ \E o \in (IF mutex_owner = NoThread THEN {NoThread, t} ELSE {mutex_owner}) :
       mutex_owner' = o
  /\ pc' = [pc EXCEPT ![t] = "reconcile"]
  /\ misuse' = TRUE
  /\ UNCHANGED <<impl, inited, debt, uuid_time, mutex_live, mutexInits,
                 mutexDestroys, flips, idleInit, idleEnd, tv, to, rcs, errors,
                 sleeps, cur, idx, issued, calls>>

AnyOrderNext ==
  \/ \E t \in Threads : ~misuse /\ InitEnter(t)
  \/ \E t \in Threads : ~misuse /\ InitReset(t)
  \/ \E t \in Threads : ~misuse /\ InitMutex(t)
  \/ \E t \in Threads : ~misuse /\ EndEnter(t)
  \/ \E t \in Threads : ~misuse /\ EndDestroy(t)
  \/ ~misuse /\ my_uuid_v4_init
  \/ ~misuse /\ EndV4
  \/ \E t \in Threads : ~misuse /\ Call(t)
  \/ \E t \in Threads : ~misuse /\ AssertFails(t)
  \/ \E t \in Threads : ~misuse /\ ReadClock(t)
  \/ \E t \in Threads : ~misuse /\ MutexLock(t)
  \/ \E t \in Threads : ~misuse /\ MutexLockUndefined(t)
  \/ \E t \in Threads : ~misuse /\ Reconcile(t)
  \/ \E t \in Threads : ~misuse /\ SleepReturn(t)
  \/ \E t \in Threads : ~misuse /\ StoreAndUnlock(t)
  \/ \E t \in Threads : ~misuse /\ RandomAndPackUs(t)
  \/ \E t \in Threads : ~misuse /\ RandomAndPackMs(t)
  \/ \E t \in Threads : ~misuse /\ RandomAndPackV4(t)
  \/ \E t \in Threads : ~misuse /\ Return(t)

AnyOrderSpec == Init /\ [][AnyOrderNext]_vars

\* a thread about to write uuid_time or the debt
Writer(t) == InLockSection(t) \/ pc[t] = "init_reset"

\* C15 as stated: while the inited flag is set, also with lifecycle calls
\* concurrent to my_uuid_v7 calls, every thread about to write uuid_time or
\* the debt holds LOCK_uuid_v7_generator and there are never two such threads.
C15_WritersHoldLock ==
  (IsV7 /\ inited) =>
    /\ \A t \in Threads : Writer(t) => (mutex_live /\ mutex_owner = t)
    /\ \A t, u \in Threads : (Writer(t) /\ Writer(u)) => t = u

\* the callers' contract: generate only between init and end, and no
\* lifecycle call overlapping another call
ContractKept ==
  /\ ~misuse
  /\ \A t, u \in Threads : (t # u /\ InLifecycle(t)) => pc[u] = "idle"

\* C15 amended: as long as the callers keep the contract (my_uuid_v7 only
\* between init and end, no init or end call overlapping another call), every
\* my_uuid_v7 call that writes uuid_time or the debt holds
\* LOCK_uuid_v7_generator, at most one call is in the lock section, and the
\* only other write is the reset of the debt by my_uuid_v7_init, made after
\* the inited flag is set, without the mutex, while no my_uuid_v7 call runs.
C15_WritersUnderContract ==
  /\ []((IsV7 /\ ContractKept) =>
          /\ \A t \in Threads :
               InLockSection(t) => (inited /\ mutex_live /\ mutex_owner = t)
          /\ \A t, u \in Threads :
               (InLockSection(t) /\ InLockSection(u)) => t = u
          /\ \A t \in Threads :
               pc[t] = "init_reset" => (inited /\ mutex_owner = NoThread))
  /\ [][(ContractKept /\ (debt' # debt \/ uuid_time' # uuid_time)) =>
          \E t \in Threads :
            /\ pc'[t] # pc[t]
            /\ \/ InLockSection(t) /\ mutex_owner = t
               \/ pc[t] = "init_reset" /\ OthersIdle(t)]_vars

\* in the second lifetime of the generator, with the contract kept, one
\* caller waits for the mutex while another is in the lock section
C15_Witness ==
  /\ IsV7 /\ ContractKept
  /\ mutexInits = 2
  /\ uuid_time > 0
  /\ \E t, u \in Threads :
       /\ InLockSection(t) /\ mutex_owner = t
       /\ pc[u] = "lock"

\* thread t starts a generate call
StartsGenerate(t) == pc[t] = "idle" /\ pc'[t] # "idle" /\ calls' = calls + 1

\* C16: my_uuid_v7 and my_uuid_v4 test the inited flag before anything else:
\* a generate call made before the first init or after an end fails the
\* assertion without reading the clock, taking the mutex, or changing
\* uuid_time, the debt or the caller's buffer, and a generate call goes on to
\* the clock or to the random draws only when the flag is set.
C16_AssertionFault ==
  /\ [](\A t \in Threads :
          pc[t] = "aborted" =>
            (~inited /\ tv[t] = 0 /\ cur[t] = NoSection /\ idx[t] = 0
               /\ mutex_owner # t))
  /\ [][\A t \in Threads :
          (StartsGenerate(t) /\ ~inited) =>
            /\ pc'[t] = "aborted"
            /\ UNCHANGED <<uuid_time, debt, mutex_owner, mutex_live, tv, to,
                           issued>>]_vars
  /\ [][\A t \in Threads : (StartsGenerate(t) /\ inited) => pc'[t] # "aborted"]_vars

\* my_uuid_v7 called after my_uuid_v7_end, with ticks issued and debt left
\* from the lifetime before: the assertion has failed
C16_Witness ==
  /\ IsV7
  /\ ~inited /\ mutexDestroys = 1
  /\ uuid_time > 0 /\ debt > 0
  /\ \E t \in Threads : pc[t] = "aborted"

\* C17 as stated: in part_000, whenever no thread is inside the lock section
\* the debt is at most MAX_BORROWED_MICROSECONDS, whatever the clock does.
C17_DebtBelowCeiling ==
  (impl = "v7us" /\ \A t \in Threads : ~InLockSection(t)) =>
    debt <= MAX_BORROWED_MICROSECONDS

\* the 12-bit field of every remainder 0..999 fits 12 bits and grows strictly
\* with the remainder
SubMsFieldStrict ==
  \A r \in 0..999 :
    /\ SubMsPrecision(r) \in 0..UUID_VERSION_MASK
    /\ r < 999 => SubMsPrecision(r) < SubMsPrecision(r + 1)

\* C18: in part_000 the sub-millisecond field lies in 0..4095 for every
\* remainder 0..999 and is strictly increasing in it, and of two outputs the
\* pair (48-bit millisecond field, 12-bit sub-millisecond field) read back
\* from the buffer of the call whose lock section came first is
\* lexicographically strictly less than the later call's.
C18_PairStrict ==
  /\ SubMsFieldStrict
  /\ impl = "v7us" =>
       \A i, j \in Sections :
         (i < j /\ Written(i) /\ Written(j)) =>
           \/ issued[i].ts < issued[j].ts
           \/ issued[i].ts = issued[j].ts /\ issued[i].sub < issued[j].sub

\* three part_000 outputs: the second is in a later millisecond with a
\* smaller sub-millisecond field, the third in the same millisecond as the
\* second with a greater one
C18_Witness ==
  /\ impl = "v7us"
  /\ Len(issued) = 3
  /\ \A i \in Sections : Written(i)
  /\ issued[1].ts < issued[2].ts /\ issued[1].sub > issued[2].sub
  /\ issued[2].ts = issued[3].ts /\ issued[2].sub < issued[3].sub

\* C19: in both my_uuid_v7 files my_uuid_v7_end followed by my_uuid_v7_init
\* sets the debt to 0 and leaves uuid_time, so the first lock section after
\* the re-init starts from debt 0 and from the last tick issued before, and
\* every tick issued after the re-init is strictly greater than every tick
\* issued before the end, whatever the clock returns.
C19_TicksSurviveReinit ==
  IsV7 =>
    /\ \A i, j \in Sections :
         issued[i].epoch < issued[j].epoch => issued[i].tick < issued[j].tick
    /\ \A j \in Sections :
         /\ j > 1 => issued[j].old = issued[j - 1].tick
         /\ (j > 1 /\ issued[j - 1].epoch < issued[j].epoch) => issued[j].d0 = 0
    /\ \A i \in Sections : issued[i].tick <= uuid_time
    /\ ( /\ Len(issued) > 0
         /\ issued[Len(issued)].epoch < mutexInits
         /\ \A t \in Threads : ~InLockSection(t) ) =>
         (debt = 0 /\ uuid_time = issued[Len(issued)].tick)

\* a lock section of the second lifetime has read a clock value below a tick
\* issued in the first lifetime, which ended with debt left
C19_Witness ==
  /\ IsV7
  /\ \E i, j \in Sections :
       /\ issued[i].epoch = 1 /\ issued[j].epoch = 2
       /\ issued[i].d2 > 0
       /\ issued[j].clock < issued[i].tick

=============================================================================
